---- MODULE Spec2Model ----
(***************************************************************************)
(* The account-record editor of neizek/saasoft: the pinia store of         *)
(* src/stores/records.ts and the store-backed table editor of              *)
(* src/views/HomeView.vue (lines 1-335).                                   *)
(*                                                                         *)
(* Representation.                                                         *)
(*  - type, login and password are TLA+ strings; the JavaScript null of    *)
(*    Record.password is the distinguished value null.  Cyrillic literals  *)
(*    of the source are transliterated (TLA+ strings are ASCII).           *)
(*  - the text of a tags cell and of a label is a sequence of characters,  *)
(*    because the commit splits and trims it.                              *)
(*  - the value of Record.tags is tagged with the JavaScript type it has   *)
(*    at run time: Arr(items) is an array of {text} objects, Txt(s) a      *)
(*    string.                                                              *)
(*  - a Row is modelled by its id and the value of its four cells; the     *)
(*    field kind and the rules of a cell depend on the column only         *)
(*    (constructRow) and are the operators FieldKind and Rules.            *)
(*  - rows.value holds references to row objects.  constructRow is called  *)
(*    once per initial record and once per addRow, always for an id larger *)
(*    than every id in rows.value, so two entries of rows.value with the   *)
(*    same id are the same object (RowsAliasOk); a write to a cell is      *)
(*    therefore seen at every entry with that id (WriteCell).              *)
(***************************************************************************)
EXTENDS Integers, Sequences, FiniteSets, TLC

VARIABLES
    records,        \* recordsStore.records
    rows,           \* rows.value
    lastOp,         \* history: the handler that ran last, its arguments and outcome
    ldapCommitted,  \* history: ids of the store records whose type was committed to 'ldap'
    deleted,        \* history (SpecRows): ids of the store records removed so far
    nSteps          \* history (Spec): number of handlers that have run

vars == <<records, rows, lastOp, ldapCommitted, deleted, nSteps>>

----------------------------------------------------------------------------
(* Bounds of the model *)

\* largest id addRow may assign (SpecRows)
MaxId == 4
\* largest length of rows.value (SpecRows)
MaxRows == 5
\* number of handlers that run in a session (Spec)
MaxSteps == 4

(* Program constants *)

\* limitedLength(val, 50) of the tags cell
TagsMaxLength == 50
\* limitedLength(val, 100) of the login and password cells
TextMaxLength == 100

null == "<null>"

Max(S) == CHOOSE m \in S : \A x \in S : x <= m

----------------------------------------------------------------------------
(* JavaScript values of Record.tags *)

Arr(items) == [isArray |-> TRUE, val |-> items]
Txt(s) == [isArray |-> FALSE, val |-> s]

Label(t) == [text |-> t]

Whitespace == {" "}

RECURSIVE JoinTexts(_)
\* Array.prototype.join('; ') over the label texts
JoinTexts(items) ==
    IF Len(items) = 0 THEN <<>>
    ELSE IF Len(items) = 1 THEN items[1].text
    ELSE items[1].text \o <<";", " ">> \o JoinTexts(Tail(items))

unpackTags(tagsArray) ==
    IF ~tagsArray.isArray THEN <<>> ELSE JoinTexts(tagsArray.val)

RECURSIVE split(_)
\* String.prototype.split(';')
split(s) ==
    IF \A k \in DOMAIN s : s[k] # ";" THEN <<s>>
    ELSE LET k == CHOOSE j \in DOMAIN s :
                      s[j] = ";" /\ \A h \in 1..(j - 1) : s[h] # ";"
         IN  <<SubSeq(s, 1, k - 1)>> \o split(SubSeq(s, k + 1, Len(s)))

RECURSIVE trim(_)
\* String.prototype.trim()
trim(s) ==
    IF Len(s) = 0 THEN s
    ELSE IF s[1] \in Whitespace THEN trim(Tail(s))
    ELSE IF s[Len(s)] \in Whitespace THEN trim(SubSeq(s, 1, Len(s) - 1))
    ELSE s

\* Boolean(x) of an object {text: ...}: every object is truthy
Boolean(item) == TRUE

\* value.split(';').map((item) => ({ text: item.trim() })).filter(Boolean)
SplitTags(value) ==
    LET parts == split(value)
        mapped == [k \in DOMAIN parts |-> Label(trim(parts[k]))]
    IN  SelectSeq(mapped, Boolean)

\* the value the commit writes for a cell: the tags transformation of lines 215-220
CommitValue(field, value) ==
    IF field = "tags"
    THEN IF Len(value) > 0 THEN Arr(SplitTags(value)) ELSE Txt(value)
    ELSE value

----------------------------------------------------------------------------
(* The store, src/stores/records.ts *)

RecordFields == {"id", "tags", "type", "login", "password"}

InitialRecords ==
    << [id |-> 1, tags |-> Arr(<<Label(<<"X", "X", "X">>)>>),
        type |-> "ldap", login |-> "", password |-> ""],
       [id |-> 2, tags |-> Arr(<<Label(<<"X", "X", "X">>),
                                 Label([k \in 1..9 |-> "Y"])>>),
        type |-> "local", login |-> "Znachenie", password |-> ""],
       [id |-> 3, tags |-> Arr(<<>>),
        type |-> "", login |-> "Znachenie", password |-> "Znachenie"] >>

RecordIds(recs) == {recs[k].id : k \in DOMAIN recs}

\* this.records.find((record) => record.id === id): the index found, 0 for undefined
FindRecord(recs, id) ==
    IF id \in RecordIds(recs)
    THEN CHOOSE k \in DOMAIN recs :
             recs[k].id = id /\ \A h \in 1..(k - 1) : recs[h].id # id
    ELSE 0

\* Object.assign(record, updatedFields)
AssignFields(record, updatedFields) ==
    [f \in DOMAIN record |->
        IF f \in DOMAIN updatedFields THEN updatedFields[f] ELSE record[f]]

StoreAddRecord(recs, newRecord) == Append(recs, newRecord)

\* faulty variant: an update that inserts the fields as a new record when no id matches
StoreUpsertRecord(recs, id, updatedFields) ==
    LET k == FindRecord(recs, id)
    IN  IF k # 0
        THEN [recs EXCEPT ![k] = AssignFields(recs[k], updatedFields)]
        ELSE Append(recs, AssignFields([f \in RecordFields |-> ""], updatedFields))

StoreUpdateRecord(recs, id, updatedFields) ==
    LET k == FindRecord(recs, id)
    IN  IF k # 0
        THEN [recs EXCEPT ![k] = AssignFields(recs[k], updatedFields)]
        ELSE recs

KeepRecord(id, record) == record.id # id

StoreRemoveRecord(recs, id) ==
    LET Keep(record) == KeepRecord(id, record) IN SelectSeq(recs, Keep)

----------------------------------------------------------------------------
(* The view, src/views/HomeView.vue *)

Columns == {"tags", "type", "login", "password", "deletable"}
\* the columns a Row has a cell for
CellColumns == Columns \ {"deletable"}

recordTypes == {"ldap", "local"}

\* the validators; TRUE is the result true, FALSE an error text
required(val) == Len(val) > 0
limitedLength(val, length) == Len(val) <= length

FieldKind(col) == IF col = "type" THEN "select" ELSE "input"

\* the conjunction of fieldProps.rules of the cell, as constructRow sets them
Rules(col, val) ==
    CASE col = "tags" -> limitedLength(val, TagsMaxLength)
      [] col = "type" -> required(val)
      [] col = "login" -> required(val) /\ limitedLength(val, TextMaxLength)
      [] col = "password" -> required(val) /\ limitedLength(val, TextMaxLength)

\* record?.password ?? ''
OrEmpty(v) == IF v = null THEN "" ELSE v

constructRow(record) ==
    [id |-> record.id,
     tags |-> unpackTags(record.tags),
     type |-> record.type,
     login |-> record.login,
     password |-> OrEmpty(record.password)]

RowIds(rs) == {rs[k].id : k \in DOMAIN rs}

\* rows.value.findIndex((row) => row.id === id), 0-based; -1 when no row matches
findIndex(rs, id) ==
    IF id \in RowIds(rs)
    THEN (CHOOSE k \in DOMAIN rs :
              rs[k].id = id /\ \A h \in 1..(k - 1) : rs[h].id # id) - 1
    ELSE -1

\* Array.prototype.slice(start, end) with 0-based, possibly negative, indices
slice(s, start, end) ==
    LET n == Len(s)
        from == IF start < 0 THEN (IF n + start < 0 THEN 0 ELSE n + start)
                ELSE (IF start > n THEN n ELSE start)
        to == IF end < 0 THEN (IF n + end < 0 THEN 0 ELSE n + end)
              ELSE (IF end > n THEN n ELSE end)
    IN  SubSeq(s, from + 1, to)

\* index !== undefined, for an index findIndex returned (a number, never undefined)
IndexFound(index) == TRUE

\* [...rows.value.slice(0, index), ...rows.value.slice(index + 1)]
RowsWithout(rs, index) == slice(rs, 0, index) \o slice(rs, index + 1, Len(rs))

\* faulty variant: the largest id itself, without the + 1
latestIdNoIncrement(rs) == IF Len(rs) > 0 THEN Max(RowIds(rs)) ELSE 0

\* Math.max(...rows.value.map((obj) => obj.id)) + 1, or 0 for no rows
latestId(rs) == IF Len(rs) > 0 THEN Max(RowIds(rs)) + 1 ELSE 0

newRecord(id) ==
    [id |-> id, tags |-> Arr(<<>>), type |-> "", login |-> "", password |-> ""]

\* faulty variant: the password cell is kept for 'ldap' rows instead of the others
passwordCellHideForOthers(row, colName) ==
    IF colName \in CellColumns /\ FieldKind(colName) = "input" /\ colName # "password"
    THEN TRUE
    ELSE IF colName = "password" /\ row.type = "ldap"
    THEN TRUE
    ELSE FALSE

passwordCellHide(row, colName) ==
    IF colName \in CellColumns /\ FieldKind(colName) = "input" /\ colName # "password"
    THEN TRUE
    ELSE IF colName = "password" /\ row.type # "ldap"
    THEN TRUE
    ELSE FALSE

\* the body-cell template: which widget, if any, a cell is rendered as
Rendered(row, colName) ==
    \/ passwordCellHide(row, colName)
    \/ colName \in CellColumns /\ FieldKind(colName) = "select"

\* fieldRef: the function ref of the template sets it to the widget while the
\* cell is rendered, and to null when the widget is unmounted
FieldRefSet(row, colName) == Rendered(row, colName)

\* fieldRef.validate(): the widget applies its rules to the model value it holds
validate(colName, held) == Rules(colName, held)

\* faulty variant: the result of validate() is ignored
AbortsWithoutRefOnly(hasRef, valid) == ~hasRef

\* !fieldRef || !fieldRef.validate()
Aborts(hasRef, valid) == ~hasRef \/ ~valid

\* the write of v-model to props.row[col].value, seen through every reference
WriteCell(rs, i, colName, v) ==
    [j \in DOMAIN rs |->
        IF rs[j].id = rs[i].id THEN [rs[j] EXCEPT ![colName] = v] ELSE rs[j]]

\* faulty variant: the password is cleared when the type becomes 'local'
ClearsPasswordOnLocal(field, value) == field = "type" /\ value = "local"

\* faulty variant: the second update is missing
ClearsPasswordNever(field, value) == FALSE

\* the second update of the commit: { password: null } after type 'ldap'
ClearsPassword(field, value) == field = "type" /\ value = "ldap"

\* the store after updateRecord(props) ran to its end
Committed(recs, id, field, value) ==
    LET first == StoreUpdateRecord(recs, id, (field :> CommitValue(field, value)))
    IN  IF ClearsPassword(field, value)
        THEN StoreUpdateRecord(first, id, [password |-> null])
        ELSE first

NoOp == [op |-> "init", id |-> 0, col |-> "", hasRef |-> FALSE, valid |-> FALSE]

Init ==
    /\ records = InitialRecords
    /\ rows = [k \in DOMAIN InitialRecords |-> constructRow(InitialRecords[k])]
    /\ lastOp = NoOp
    /\ ldapCommitted = {}
    /\ deleted = {}
    /\ nSteps = 0

addRow ==
    LET id == latestId(rows)
    IN  /\ rows' = Append(rows, constructRow(newRecord(id)))
        /\ records' = StoreAddRecord(records, newRecord(id))
        /\ lastOp' = [NoOp EXCEPT !.op = "addRow", !.id = id]
        /\ UNCHANGED <<ldapCommitted, deleted>>

deleteRow(id) ==
    LET index == findIndex(rows, id)
    IN  /\ IF IndexFound(index)
           THEN /\ records' = StoreRemoveRecord(records, id)
                /\ rows' = RowsWithout(rows, index)
           ELSE UNCHANGED <<records, rows>>
        /\ lastOp' = [NoOp EXCEPT !.op = "deleteRow", !.id = id]
        /\ ldapCommitted' = ldapCommitted \ (RecordIds(records) \ RecordIds(records'))

\* updateRecord(props) for the row at position i and the column colName, the
\* row list being written (v-model has written the cell before the handler
\* runs) and held the model value of the widget that fieldRef refers to
updateRecord(written, i, colName, held) ==
    LET row == written[i]
        id == row.id
        value == row[colName]
        hasRef == FieldRefSet(row, colName)
        valid == hasRef /\ validate(colName, held)
    IN  /\ rows' = written
        /\ records' = IF Aborts(hasRef, valid) THEN records
                      ELSE Committed(records, id, colName, value)
        /\ lastOp' = [op |-> "updateRecord", id |-> id, col |-> colName,
                      hasRef |-> hasRef, valid |-> valid]
        /\ ldapCommitted' =
              IF /\ hasRef /\ valid
                 /\ colName = "type" /\ value = "ldap"
                 /\ id \in RecordIds(records)
              THEN ldapCommitted \cup {id}
              ELSE ldapCommitted
        /\ UNCHANGED deleted

\* q-input: the user leaves the input of a rendered cell holding the text v
\* (v-model, line 278, then @blur, line 283)
InputBlur(i, colName, v) ==
    /\ i \in DOMAIN rows
    /\ colName \in CellColumns
    /\ passwordCellHide(rows[i], colName)
    /\ updateRecord(WriteCell(rows, i, colName, v), i, colName, v)

\* q-select: the user picks another option v of recordTypes
\* (v-model, line 310, then @update:model-value, line 315).  Both handlers run
\* inside the event: the row holds v when updateRecord runs, while the widget
\* is rendered anew only after it, so that the value it validates is v or
\* still the value it was rendered with.
SelectChange(i, v, held) ==
    /\ i \in DOMAIN rows
    /\ v \in recordTypes
    /\ v # rows[i].type
    /\ held \in {v, rows[i].type}
    /\ updateRecord(WriteCell(rows, i, "type", v), i, "type", held)

----------------------------------------------------------------------------
(* Inputs *)

TooLongTags == [k \in 1..(TagsMaxLength + 1) |-> "a"]

\* 'a; ;b;' and a text longer than the tags rule allows
TagInputs == {<<"a", ";", " ", ";", "b", ";">>, TooLongTags}
LoginInputs == {"", "user"}
PasswordInputs == {"", "secret"}

\* what the user may leave in an input: a text of the input set, or the text
\* the cell already shows
TextInputs(row, colName) ==
    {row[colName]} \cup
    (CASE colName = "tags" -> TagInputs
       [] colName = "login" -> LoginInputs
       [] colName = "password" -> PasswordInputs
       [] OTHER -> {})

\* ids deleteRow is called with: the id of every row, and an id no row has
\* (deleteRow compares ids for equality only, so one such id stands for all)
DeleteIds(rs) == RowIds(rs) \cup {latestId(rs)}

----------------------------------------------------------------------------
(* Specifications *)

\* the rows and the store under addRow and deleteRow alone
NextRows ==
    \/ /\ latestId(rows) <= MaxId
       /\ Len(rows) < MaxRows
       /\ addRow
       /\ UNCHANGED nSteps
    \/ \E id \in DeleteIds(rows) :
          /\ deleteRow(id)
          /\ deleted' = deleted \cup (RecordIds(records) \ RecordIds(records'))
          /\ Len(rows') <= MaxRows
          /\ UNCHANGED nSteps

SpecRows == Init /\ [][NextRows]_vars

\* one more handler runs
Step == nSteps < MaxSteps /\ nSteps' = nSteps + 1

\* the editor: rows are added and deleted and cells are edited
Next ==
    \/ /\ Step
       /\ addRow
    \/ /\ Step
       /\ \E id \in DeleteIds(rows) : deleteRow(id) /\ UNCHANGED deleted
    \/ /\ Step
       /\ \E i \in DOMAIN rows, colName \in {"tags", "login", "password"} :
             \E v \in TextInputs(rows[i], colName) : InputBlur(i, colName, v)
    \/ /\ Step
       /\ \E i \in DOMAIN rows, v \in recordTypes :
             \E held \in {v, rows[i].type} : SelectChange(i, v, held)

Spec == Init /\ [][Next]_vars

TypeOK ==
    /\ \A k \in DOMAIN records :
          /\ DOMAIN records[k] = RecordFields
          /\ records[k].type \in recordTypes \cup {""}
    /\ \A k \in DOMAIN rows : rows[k].password # null

\* two entries of rows.value with the same id are the same row object
RowsAliasOk == \A j, k \in DOMAIN rows : rows[j].id = rows[k].id => rows[j] = rows[k]

----------------------------------------------------------------------------
(* Claims *)

\* the last handler was the view's updateRecord and it wrote to the store
LastCommitted(colName) ==
    /\ lastOp.op = "updateRecord"
    /\ lastOp.col = colName
    /\ lastOp.hasRef
    /\ lastOp.valid

C2_LdapThenLocalHasNoPassword ==
    (LastCommitted("type") /\ lastOp.id \in ldapCommitted) =>
        \A k \in DOMAIN records :
            (records[k].id = lastOp.id /\ records[k].type = "local")
                => records[k].password = null

\* C2 witness: the type of a record was committed to 'ldap' and has just been
\* committed to 'local'.
C2_Witness ==
    /\ LastCommitted("type")
    /\ lastOp.id \in ldapCommitted
    /\ \E k \in DOMAIN records :
          /\ records[k].id = lastOp.id
          /\ records[k].type = "local"
          /\ records[k].password = null

\* C3: a run of the view's updateRecord whose validation fails leaves the
\* record list of the store as it was.
C3_InvalidCommitLeavesStore ==
    [][(lastOp'.op = "updateRecord" /\ ~lastOp'.valid) => records' = records]_vars

\* C3 witness: validation has just failed for a rendered cell, whose value
\* differs from the one the store holds.
C3_Witness ==
    /\ lastOp.op = "updateRecord"
    /\ lastOp.hasRef
    /\ ~lastOp.valid
    /\ lastOp.col = "login"
    /\ \E i \in DOMAIN rows, k \in DOMAIN records :
          /\ rows[i].id = lastOp.id
          /\ records[k].id = lastOp.id
          /\ rows[i].login # records[k].login

\* C4 as stated: deleteRow with an id no row has leaves the row list and the
\* record list of the store as they were.
C4_DeleteUnknownIdIsNoOp ==
    [][(lastOp'.op = "deleteRow" /\ lastOp'.id \notin RowIds(rows))
          => (rows' = rows /\ records' = records)]_vars

\* C5 as stated: after any addRow and deleteRow calls every store record has
\* exactly one row with its id and every row exactly one store record.
C5_RowsMatchRecords ==
    /\ \A k \in DOMAIN records :
          Cardinality({i \in DOMAIN rows : rows[i].id = records[k].id}) = 1
    /\ \A i \in DOMAIN rows :
          Cardinality({k \in DOMAIN records : records[k].id = rows[i].id}) = 1

\* C6 as stated: addRow assigns 0 when the store has no records and otherwise
\* the largest id of a store record plus one, and the appended record and the
\* appended row both carry that id.
C6_AddRowAssignsNextId ==
    [][lastOp'.op = "addRow" =>
          LET expected == IF Len(records) = 0 THEN 0
                          ELSE Max(RecordIds(records)) + 1
          IN  /\ Len(records') = Len(records) + 1
              /\ Len(rows') = Len(rows) + 1
              /\ records'[Len(records')].id = expected
              /\ rows'[Len(rows')].id = expected]_vars

\* C7 as stated: the id of a record that was deleted is never assigned by a
\* later addRow.
C7_DeletedIdNeverReassigned ==
    lastOp.op = "addRow" => lastOp.id \notin deleted

\* C7 as amended: addRow assigns an id larger than the id of every record in
\* the store and of every row, so never the id of a record that exists.
C7_AddRowAssignsUnusedId ==
    [][lastOp'.op = "addRow" =>
          /\ \A id \in RecordIds(records) \cup RowIds(rows) : id < lastOp'.id
          /\ records'[Len(records')].id = lastOp'.id
          /\ \A k \in 1..Len(records) : records'[k] = records[k]]_vars

\* C7 witness: addRow has just assigned the id of a record deleted before.
C7_Witness ==
    /\ lastOp.op = "addRow"
    /\ lastOp.id \in deleted
    /\ lastOp.id \in RecordIds(records)

NoSemicolon(items) ==
    \A n \in DOMAIN items : \A c \in DOMAIN items[n].text : items[n].text[c] # ";"

\* C8 as stated: when the tags cell of a row that shows the string constructRow
\* joined from the record's labels (none containing ';') is committed with the
\* string unchanged, the store holds the record's original label list.
C8_TagsRoundTrip ==
    [][\A i \in DOMAIN rows, k \in DOMAIN records :
          ( /\ lastOp'.op = "updateRecord" /\ lastOp'.col = "tags"
            /\ lastOp'.hasRef /\ lastOp'.valid
            /\ lastOp'.id = rows[i].id
            /\ rows' = rows
            /\ records[k].id = rows[i].id
            /\ records[k].tags.isArray
            /\ NoSemicolon(records[k].tags.val)
            /\ rows[i].tags = constructRow(records[k]).tags )
          => records'[k].tags = records[k].tags]_vars

PartialFields ==
    { [password |-> null],
      [tags |-> Arr(<<Label(<<"a">>)>>)],
      [type |-> "local", login |-> "user"] }

\* C10: the store's updateRecord(id, fields) gives the first record with that
\* id the given fields and leaves its other fields and every other record as
\* they were; with no such record the list is unchanged.
C10_UpdateRecordFrame ==
    \A id \in RecordIds(records) \cup RowIds(rows) \cup {latestId(rows)},
       fields \in PartialFields :
        LET out == StoreUpdateRecord(records, id, fields)
        IN  /\ Len(out) = Len(records)
            /\ \A k \in DOMAIN records :
                  IF records[k].id = id /\ \A h \in 1..(k - 1) : records[h].id # id
                  THEN \A f \in RecordFields :
                          out[k][f] = IF f \in DOMAIN fields THEN fields[f]
                                      ELSE records[k][f]
                  ELSE out[k] = records[k]

\* C10 witness: the login of a record was just committed through the store's
\* updateRecord, and the record keeps the password it had.
C10_Witness ==
    /\ LastCommitted("login")
    /\ \E k \in DOMAIN records :
          /\ records[k].id = lastOp.id
          /\ records[k].login = "user"
          /\ records[k].password = "Znachenie"

NonEmptyText(item) == Len(item.text) > 0

\* the labels of a raw text: split on ';', each segment trimmed, empty ones dropped
LabelsOf(raw) ==
    LET parts == split(raw)
    IN  SelectSeq([n \in DOMAIN parts |-> Label(trim(parts[n]))], NonEmptyText)

\* C11 as stated, for a raw text that is not empty: after the commit of a tags
\* cell the store holds the labels obtained by splitting the text on ';',
\* trimming each segment and dropping the empty ones, so no label with an
\* empty text is stored.
C11_CommittedTagsHaveNoEmptyLabel ==
    LastCommitted("tags") =>
        \A i \in DOMAIN rows, k \in DOMAIN records :
            ( /\ rows[i].id = lastOp.id
              /\ records[k].id = lastOp.id
              /\ Len(rows[i].tags) > 0 )
            => /\ records[k].tags = Arr(LabelsOf(rows[i].tags))
               /\ \A n \in DOMAIN records[k].tags.val :
                     Len(records[k].tags.val[n].text) > 0

====
